---------------------------- MODULE Spec2Model ----------------------------
(***************************************************************************)
(* Elevate: binaural tone model (AudioStimulus), playback coordinator      *)
(* (StateInductionController), visual stimulus (VisualStimulus) and the    *)
(* breath animation engine (BouncyBallAnimation).                          *)
(*                                                                         *)
(* Time is the monotonic clock in milliseconds.  Frequencies are in Hz,    *)
(* volumes in hundredths (0.5 is 50).  A Python None is the empty tuple,   *)
(* a present value x is the one-element tuple <<x>>.                       *)
(***************************************************************************)
EXTENDS Integers, Sequences, FiniteSets, TLC

VARIABLES
    now,           \* time.monotonic() / GLib monotonic time, in ms
    timers,        \* the GLib main context's pending timeout sources
    audio,         \* the AudioStimulus object's fields
    visual,        \* the VisualStimulus object's fields
    ctl,           \* the StateInductionController object's fields
    last,          \* observation: the last handler run, and what it let escape
    played_total,  \* observation: total time during which ctl.is_playing was true
    burst,         \* observation: the current burst of frequency assignments
    anim,          \* the BouncyBallAnimation object's fields
    frame,         \* observation: what the last render() computed and drew
    active,        \* observation: what is_phase_active last returned, per phase
    measured,      \* observation: what phase1 and phase3 last returned
    config,        \* the values stored under the application's GSettings keys
    registry       \* the animations module's _REGISTRY dictionary

vars == <<now, timers, audio, visual, ctl, last, played_total, burst, anim, frame,
          active, measured, config, registry>>

toneVars == <<now, timers, audio, visual, ctl, last, played_total, burst>>
animVars == <<anim, frame, active, measured>>
restVars == <<config, registry>>

---------------------------------------------------------------------------
(* Values *)

None == <<>>
Some(x) == <<x>>
Val(o) == o[1]

Min(a, b) == IF a <= b THEN a ELSE b
Max(a, b) == IF a >= b THEN a ELSE b

\* GLib.timeout_add(100, self._apply_frequency_update): the debounce delay, ms
DebounceDelay == 100

\* GLib.timeout_add(16, self._animate): the animation tick, ms
AnimationInterval == 16

\* The clock advances in steps of half a debounce delay, MaxTicks times at most.
MaxTicks == 3
TickStep == DebounceDelay \div 2
MaxTime == MaxTicks * TickStep

\* Values the UI assigns to base_frequency and channel_offset (Hz).
BaseFrequencies == {30, 150}
ChannelOffsets == {10, 30}

\* Values passed to set_volume (hundredths): below, inside and above [0, 1].
VolumeInputs == {-50, 42, 200}

\* The exception classes the backend raises from set_property.
ErrorClasses == {"TypeError", "ValueError", "RuntimeError", "GLibError"}
Outcomes == {"ok"} \cup ErrorClasses

\* The elements Gst.ElementFactory.make is asked for in _create_pipeline.
Elements == {"source_left", "source_right", "mixer", "audioconvert",
             "volume_element", "sink"}

\* What the factory can deliver: everything, or everything but one element.
MadeSets == {Elements} \cup {Elements \ {e} : e \in Elements}

\* The property-configuration steps of _create_pipeline, in order.
ConfigSteps == <<"src_defaults", "volume", "freq_left", "freq_right">>

\* Configuration outcomes: no error, or error class e at step i.
ConfigOutcomes == {[at |-> 0, err |-> "ok"]}
                  \cup [at : 1..Len(ConfigSteps), err : ErrorClasses]

---------------------------------------------------------------------------
(* GLib timeout sources *)

\* ids held by pending sources or recorded in an object's field
UsedIds(tm, a, v) ==
    {t.id : t \in tm}
    \cup (IF a.update_timeout_id = None THEN {} ELSE {Val(a.update_timeout_id)})
    \cup (IF v.animation_source = None THEN {} ELSE {Val(v.animation_source)})

\* GLib hands out an id that no live source has; ids are only compared for
\* equality, so the least unused one stands for it.
FreshId(used) == CHOOSE i \in 1..(Cardinality(used) + 1) :
                    i \notin used /\ \A j \in 1..(i - 1) : j \in used

\* GLib.timeout_add(interval, callback)
TimeoutAdd(tm, id, interval, cb, t) ==
    tm \cup {[id |-> id, due |-> t + interval, cb |-> cb]}

\* GLib.source_remove(id)
SourceRemove(tm, id) == {t \in tm : t.id # id}

---------------------------------------------------------------------------
(* AudioStimulus *)

\* AudioStimulus.__init__
AudioInit ==
    [base_frequency |-> 30, channel_offset |-> 10, is_playing |-> FALSE,
     volume |-> 50, pending_frequency_update |-> FALSE,
     update_timeout_id |-> None,
     pipeline |-> None,         \* None, or <<[state, linked]>>
     source_left |-> None,      \* None, or <<freq>> (0: never written)
     source_right |-> None,
     mixer |-> None,            \* None, or <<"mixer">>
     audioconvert |-> None,
     volume_element |-> None,   \* None, or <<volume>> (-1: never written)
     sink |-> None]

\* pipeline.set_state(s) on an existing pipeline
SetState(a, s) ==
    [a EXCEPT !.pipeline = Some([Val(a.pipeline) EXCEPT !.state = s])]

\* the state of the graph the elements belong to: a graph that was never
\* started, or was stopped and dropped, is in state NULL
GraphState(a) == IF a.pipeline = None THEN "NULL" ELSE Val(a.pipeline).state

\* the first failing write among outcomes os (a sequence), 0 if none fails
FirstError(os) ==
    IF \E i \in 1..Len(os) : os[i] # "ok"
    THEN CHOOSE i \in 1..Len(os) : os[i] # "ok" /\ \A j \in 1..(i - 1) : os[j] = "ok"
    ELSE 0

\* the frequency writes giving both oscillators the base frequency
WriteFrequenciesSameTone(a, os) ==
    LET k == FirstError(os)
        a1 == IF k = 1 THEN a
              ELSE [a EXCEPT !.source_left = Some(a.base_frequency)]
        a2 == IF k \in {1, 2} THEN a1
              ELSE [a1 EXCEPT !.source_right = Some(a.base_frequency)]
    IN [audio |-> a2, raised |-> IF k = 0 THEN "none" ELSE os[k]]

\* source_left.set_property("freq", base); source_right.set_property("freq",
\* base + offset), the second only if the first did not raise.
\* os = <<outcome of the left write, outcome of the right write>>
WriteFrequencies(a, os) ==
    LET k == FirstError(os)
        a1 == IF k = 1 THEN a
              ELSE [a EXCEPT !.source_left = Some(a.base_frequency)]
        a2 == IF k \in {1, 2} THEN a1
              ELSE [a1 EXCEPT !.source_right =
                                 Some(a.base_frequency + a.channel_offset)]
    IN [audio |-> a2, raised |-> IF k = 0 THEN "none" ELSE os[k]]

\* The except clauses around the property writes of _apply_frequency_update,
\* of play() and of set_volume, and around the body of play().
ApplyCatchesNarrow == {"TypeError", "ValueError"}
ApplyCatches == {"TypeError", "ValueError", "RuntimeError", "GLibError"}
PlayWriteCatches == {"TypeError", "ValueError", "RuntimeError", "GLibError"}
PlayCatches == {"RuntimeError", "GLibError"}
VolumeCatches == {"TypeError", "ValueError", "RuntimeError", "GLibError"}

\* what a try block lets escape when its body raised err
Escapes(err, catches) == IF err \in catches THEN "none" ELSE err

\* _schedule_frequency_update without the source_remove of the previous timeout
ScheduleFrequencyUpdateStacking(a, tm, used, t) ==
    LET id == FreshId(used)
    IN [audio |-> [a EXCEPT !.update_timeout_id = Some(id)],
        timers |-> TimeoutAdd(tm, id, DebounceDelay, "freq", t)]

\* AudioStimulus._schedule_frequency_update
ScheduleFrequencyUpdate(a, tm, used, t) ==
    LET tm1 == IF a.update_timeout_id # None
               THEN SourceRemove(tm, Val(a.update_timeout_id))
               ELSE tm
        id == FreshId(used)
    IN [audio |-> [a EXCEPT !.update_timeout_id = Some(id)],
        timers |-> TimeoutAdd(tm1, id, DebounceDelay, "freq", t)]

\* base_frequency.setter pushing the value to the left oscillator at once
SetBaseFrequencyOpEager(a, tm, used, t, value) ==
    ScheduleFrequencyUpdate(
        [a EXCEPT !.base_frequency = value, !.pending_frequency_update = TRUE,
                  !.source_left = IF @ = None THEN None ELSE Some(value)],
        tm, used, t)

\* base_frequency.setter
SetBaseFrequencyOp(a, tm, used, t, value) ==
    ScheduleFrequencyUpdate(
        [a EXCEPT !.base_frequency = value, !.pending_frequency_update = TRUE],
        tm, used, t)

\* channel_offset.setter
SetChannelOffsetOp(a, tm, used, t, value) ==
    ScheduleFrequencyUpdate(
        [a EXCEPT !.channel_offset = value, !.pending_frequency_update = TRUE],
        tm, used, t)

\* the debounce callback setting the graph to PLAYING after every write
ApplyFrequencyUpdateRestarts(a, os) ==
    IF ~a.pending_frequency_update \/ a.source_left = None \/ a.source_right = None
    THEN [audio |-> [a EXCEPT !.update_timeout_id = None],
          raised |-> "none", applied |-> FALSE, wrote_in |-> {}]
    ELSE
      LET a1 == IF a.pipeline # None THEN SetState(a, "PAUSED") ELSE a
          w == WriteFrequencies(a1, os)
          a2 == IF w.raised = "none" /\ a.pipeline # None
                THEN [SetState(w.audio, "PLAYING") EXCEPT !.is_playing = TRUE]
                ELSE w.audio
          esc == Escapes(w.raised, ApplyCatches)
      IN IF esc # "none"
         THEN [audio |-> a2, raised |-> esc, applied |-> FALSE,
               wrote_in |-> {GraphState(a1)}]
         ELSE [audio |-> [a2 EXCEPT !.pending_frequency_update = FALSE,
                                    !.update_timeout_id = None],
               raised |-> "none",
               applied |-> (w.raised = "none"),
               wrote_in |-> {GraphState(a1)}]

\* the debounce callback writing the frequencies without pausing the graph
ApplyFrequencyUpdateLive(a, os) ==
    IF ~a.pending_frequency_update \/ a.source_left = None \/ a.source_right = None
    THEN [audio |-> [a EXCEPT !.update_timeout_id = None],
          raised |-> "none", applied |-> FALSE, wrote_in |-> {}]
    ELSE
      LET w == WriteFrequencies(a, os)
          esc == Escapes(w.raised, ApplyCatches)
      IN IF esc # "none"
         THEN [audio |-> w.audio, raised |-> esc, applied |-> FALSE,
               wrote_in |-> {GraphState(a)}]
         ELSE [audio |-> [w.audio EXCEPT !.pending_frequency_update = FALSE,
                                         !.update_timeout_id = None],
               raised |-> "none",
               applied |-> (w.raised = "none"),
               wrote_in |-> {GraphState(a)}]

\* AudioStimulus._apply_frequency_update, the debounce callback.
\* os: the outcomes of the two property writes.  Result: the object after the
\* call, the exception that escaped ("none" if none), whether both
\* oscillators were written, and the graph states in which a "freq" write
\* was made.
ApplyFrequencyUpdate(a, os) ==
    IF ~a.pending_frequency_update \/ a.source_left = None \/ a.source_right = None
    THEN [audio |-> [a EXCEPT !.update_timeout_id = None],
          raised |-> "none", applied |-> FALSE, wrote_in |-> {}]
    ELSE
      LET was_playing == a.is_playing
      IN IF was_playing /\ a.pipeline = None
         THEN \* self._pipeline.set_state on None: not an exception the
              \* handler catches
              [audio |-> a, raised |-> "AttributeError", applied |-> FALSE,
               wrote_in |-> {}]
         ELSE
           LET a1 == IF was_playing THEN SetState(a, "PAUSED") ELSE a
               w == WriteFrequencies(a1, os)
               a2 == IF w.raised = "none" /\ was_playing
                     THEN SetState(w.audio, "PLAYING")
                     ELSE w.audio
               esc == Escapes(w.raised, ApplyCatches)
           IN IF esc # "none"
              THEN [audio |-> a2, raised |-> esc, applied |-> FALSE,
                    wrote_in |-> {GraphState(a1)}]
              ELSE [audio |-> [a2 EXCEPT !.pending_frequency_update = FALSE,
                                         !.update_timeout_id = None],
                    raised |-> "none",
                    applied |-> (w.raised = "none"),
                    wrote_in |-> {GraphState(a1)}]

\* AudioStimulus._create_pipeline.  made: the elements the factory delivers;
\* cfg: the outcome of the property configuration.
CreatePipeline(a, made, cfg) ==
    LET mk(e, v) == IF e \in made THEN Some(v) ELSE None
        a1 == [a EXCEPT !.pipeline = Some([state |-> "NULL", linked |-> FALSE]),
                        !.source_left = mk("source_left", 0),
                        !.source_right = mk("source_right", 0),
                        !.mixer = mk("mixer", "mixer"),
                        !.audioconvert = mk("audioconvert", "audioconvert"),
                        !.volume_element = mk("volume_element", -1),
                        !.sink = mk("sink", "sink")]
    IN IF made # Elements
       THEN [audio |-> a1, raised |-> "RuntimeError", wrote_in |-> {}]
       ELSE
         LET a2 == [a1 EXCEPT !.pipeline = Some([state |-> "NULL", linked |-> TRUE])]
             done(step) == cfg.at = 0 \/ cfg.at > step
             a3 == IF done(2) THEN [a2 EXCEPT !.volume_element = Some(a.volume)]
                   ELSE a2
             a4 == IF done(3) THEN [a3 EXCEPT !.source_left = Some(a.base_frequency)]
                   ELSE a3
             a5 == IF done(4)
                   THEN [a4 EXCEPT !.source_right =
                                     Some(a.base_frequency + a.channel_offset)]
                   ELSE a4
         IN [audio |-> a5, raised |-> IF cfg.at = 0 THEN "none" ELSE cfg.err,
             wrote_in |-> IF done(2) THEN {GraphState(a2)} ELSE {}]

\* AudioStimulus.play.  made, cfg: as for CreatePipeline; os: the outcomes of
\* the two frequency writes play() itself makes.  Result: the object after the
\* call, the exception that escaped, whether _create_pipeline was called
\* ("none" if not, else "ok" or "failed" as the elements were all made or not),
\* and the graph states in which a "freq" write was made.
AudioPlay(a, made, cfg, os) ==
    IF a.is_playing
    THEN [audio |-> a, raised |-> "none", construction |-> "none", wrote_in |-> {}]
    ELSE
      LET c == IF a.pipeline = None THEN CreatePipeline(a, made, cfg)
               ELSE [audio |-> a, raised |-> "none", wrote_in |-> {}]
          k == IF a.pipeline # None THEN "none"
               ELSE IF made = Elements THEN "ok" ELSE "failed"
      IN IF c.raised # "none"
         THEN \* caught and printed by play(), or escaping it
              [audio |-> c.audio, raised |-> Escapes(c.raised, PlayCatches),
               construction |-> k, wrote_in |-> c.wrote_in]
         ELSE
           LET w == IF c.audio.source_left # None /\ c.audio.source_right # None
                    THEN WriteFrequencies(c.audio, os)
                    ELSE [audio |-> c.audio, raised |-> "none"]
               esc == Escapes(Escapes(w.raised, PlayWriteCatches), PlayCatches)
               a1 == SetState(w.audio, "PLAYING")
               wrote == c.wrote_in
                        \cup (IF c.audio.source_left # None
                                 /\ c.audio.source_right # None
                              THEN {GraphState(c.audio)} ELSE {})
           IN IF esc # "none"
              THEN [audio |-> w.audio, raised |-> esc, construction |-> k,
                    wrote_in |-> wrote]
              ELSE [audio |-> [a1 EXCEPT !.is_playing = TRUE], raised |-> "none",
                    construction |-> k, wrote_in |-> wrote]

\* AudioStimulus.pause
AudioPause(a) ==
    IF a.is_playing /\ a.pipeline # None
    THEN [SetState(a, "PAUSED") EXCEPT !.is_playing = FALSE]
    ELSE a

\* stop keeping the graph handle
AudioStopKeepsGraph(a) ==
    [a EXCEPT !.is_playing = FALSE]

\* AudioStimulus.stop
AudioStop(a) ==
    [a EXCEPT !.pipeline = None, !.is_playing = FALSE]

\* set_volume storing the value as given
AudioSetVolumeUnclamped(a, value, o) ==
    LET a1 == [a EXCEPT !.volume = value]
    IN IF a1.volume_element = None
       THEN [audio |-> a1, raised |-> "none", sent |-> None]
       ELSE IF o = "ok"
       THEN [audio |-> [a1 EXCEPT !.volume_element = Some(a1.volume)],
             raised |-> "none", sent |-> Some(a1.volume)]
       ELSE [audio |-> a1, raised |-> Escapes(o, VolumeCatches),
             sent |-> Some(a1.volume)]

\* AudioStimulus.set_volume; o: the outcome of the property write.  Result: the
\* object after the call, the exception that escaped, and the value
\* set_property("volume", ...) was called with (None if it was not called).
AudioSetVolume(a, value, o) ==
    LET a1 == [a EXCEPT !.volume = Max(0, Min(100, value))]
    IN IF a1.volume_element = None
       THEN [audio |-> a1, raised |-> "none", sent |-> None]
       ELSE IF o = "ok"
       THEN [audio |-> [a1 EXCEPT !.volume_element = Some(a1.volume)],
             raised |-> "none", sent |-> Some(a1.volume)]
       ELSE [audio |-> a1, raised |-> Escapes(o, VolumeCatches),
             sent |-> Some(a1.volume)]

\* AudioStimulus.get_volume
GetVolume(a) == a.volume

---------------------------------------------------------------------------
(* VisualStimulus *)

\* ElevateSettings.DEFAULT_ENABLE_VISUAL, the schema default of the settings key
DefaultEnableVisual == TRUE

\* VisualStimulus.__init__; the enable flag is bound to the settings key
\* enable-visual-stimuli, whose stored value the binding copies in.
VisualInit(enabled) ==
    [enable_visual_stimuli |-> enabled, stimuli_type |-> 0, is_playing |-> FALSE,
     animation_source |-> None, widget |-> FALSE, last_ts |-> None,
     animation |-> None, time |-> 0]

\* VisualStimulus._start_animation
StartAnimation(v, tm, used, t) ==
    IF v.animation_source = None
    THEN LET id == FreshId(used)
         IN [visual |-> [v EXCEPT !.last_ts = Some(t), !.animation_source = Some(id)],
             timers |-> TimeoutAdd(tm, id, AnimationInterval, "anim", t)]
    ELSE [visual |-> v, timers |-> tm]

\* _stop_animation forgetting the id without removing the source
StopAnimationKeepsSource(v, tm) ==
    [visual |-> [v EXCEPT !.animation_source = None], timers |-> tm]

\* VisualStimulus._stop_animation
StopAnimation(v, tm) ==
    IF v.animation_source # None
    THEN [visual |-> [v EXCEPT !.animation_source = None],
          timers |-> SourceRemove(tm, Val(v.animation_source))]
    ELSE [visual |-> v, timers |-> tm]

\* play starting whether or not visual stimuli are enabled
VisualPlayIgnoresEnable(v, tm, used, t) ==
    IF ~v.is_playing
    THEN LET v1 == [v EXCEPT !.is_playing = TRUE, !.animation = Some(v.stimuli_type)]
         IN IF v1.widget THEN StartAnimation(v1, tm, used, t)
            ELSE [visual |-> v1, timers |-> tm]
    ELSE [visual |-> v, timers |-> tm]

\* VisualStimulus.play
VisualPlay(v, tm, used, t) ==
    IF v.enable_visual_stimuli /\ ~v.is_playing
    THEN LET v1 == [v EXCEPT !.is_playing = TRUE, !.animation = Some(v.stimuli_type)]
         IN IF v1.widget THEN StartAnimation(v1, tm, used, t)
            ELSE [visual |-> v1, timers |-> tm]
    ELSE [visual |-> v, timers |-> tm]

\* VisualStimulus.pause
VisualPause(v, tm) ==
    IF v.is_playing
    THEN StopAnimation([v EXCEPT !.is_playing = FALSE, !.time = 0], tm)
    ELSE [visual |-> v, timers |-> tm]

\* VisualStimulus.stop
VisualStop(v, tm) ==
    StopAnimation([v EXCEPT !.is_playing = FALSE, !.time = 0], tm)

\* VisualStimulus.set_widget; TRUE stands for a widget, FALSE for None
VisualSetWidget(v, widget) == [v EXCEPT !.widget = widget]

\* VisualStimulus.stimuli_type.setter
VisualSetStimuliType(v, value) ==
    [v EXCEPT !.stimuli_type = value,
              !.animation = IF v.is_playing THEN Some(value) ELSE @]

\* the largest time step of _animate, 0.1 s
MaxFrameStep == 100

\* VisualStimulus._animate, run at time t.  continue: the callback returned
\* SOURCE_CONTINUE; update_calls: how often animation.update was invoked.
\* "self._last_ts or now" takes now for None and for a timestamp of 0.
VisualAnimate(v, t) ==
    IF v.is_playing /\ v.widget
    THEN LET last_ts == IF v.last_ts = None \/ v.last_ts = Some(0) THEN t
                        ELSE Val(v.last_ts)
             dt == Max(0, Min(MaxFrameStep, t - last_ts))
         IN [visual |-> [v EXCEPT !.last_ts = Some(t),
                                  !.time = IF v.animation # None THEN @ + dt ELSE @],
             continue |-> TRUE,
             update_calls |-> IF v.animation # None THEN 1 ELSE 0]
    ELSE [visual |-> v, continue |-> FALSE, update_calls |-> 0]

\* VisualStimulus.render.  drawn: what was painted; animation_calls: how
\* often animation.render was invoked.
VisualRender(v) ==
    IF ~v.enable_visual_stimuli
    THEN [visual |-> v, drawn |-> "background", animation_calls |-> 0]
    ELSE IF ~v.is_playing
    THEN [visual |-> v, drawn |-> "background", animation_calls |-> 0]
    ELSE [visual |-> [v EXCEPT !.animation = IF @ = None THEN Some(v.stimuli_type)
                                              ELSE @],
          drawn |-> "animation", animation_calls |-> 1]

---------------------------------------------------------------------------
(* StateInductionController *)

\* StateInductionController.__init__
CtlInit ==
    [is_playing |-> FALSE, is_paused |-> FALSE,
     elapsed_time |-> None, start_time |-> None]

\* StateInductionController.elapsed_time (the property getter), read at time t
ElapsedTime(c, t) ==
    LET elapsed == IF c.elapsed_time = None THEN 0 ELSE Val(c.elapsed_time)
    IN IF c.start_time = None THEN elapsed
       ELSE elapsed + (t - Val(c.start_time))

\* what a handler of the is-playing notification reads from the coordinator
\* when notify("is-playing") is emitted on c
Notified(c) == Some([is_playing |-> c.is_playing, is_paused |-> c.is_paused])

\* the body of StateInductionController.play under "if not self._is_playing".
\* seen: what the handlers of the notification read (None: none emitted).
\* audio_calls, visual_calls: how often audio_stimulus.play() and
\* visual_stimulus.play() were invoked.
CtlPlayStart(c, a, v, tm, t, made, cfg, os) ==
    LET p == AudioPlay(a, made, cfg, os)
    IN IF p.raised # "none"
       THEN [ctl |-> c, audio |-> p.audio, visual |-> v, timers |-> tm,
             raised |-> p.raised, construction |-> p.construction,
             audio_calls |-> 1, visual_calls |-> 0, seen |-> None]
       ELSE
         LET w == IF v.enable_visual_stimuli
                  THEN VisualPlay(v, tm, UsedIds(tm, p.audio, v), t)
                  ELSE [visual |-> v, timers |-> tm]
             c1 == [c EXCEPT !.is_playing = TRUE, !.start_time = Some(t)]
         IN [ctl |-> [c1 EXCEPT !.is_paused = FALSE],
             audio |-> p.audio, visual |-> w.visual, timers |-> w.timers,
             raised |-> "none", construction |-> p.construction,
             audio_calls |-> 1,
             visual_calls |-> IF v.enable_visual_stimuli THEN 1 ELSE 0,
             seen |-> Notified(c1)]

\* play without the guard on is_playing
CtlPlayRestarts(c, a, v, tm, t, made, cfg, os) ==
    CtlPlayStart(c, a, v, tm, t, made, cfg, os)

\* StateInductionController.play
CtlPlay(c, a, v, tm, t, made, cfg, os) ==
    IF c.is_playing
    THEN [ctl |-> c, audio |-> a, visual |-> v, timers |-> tm, raised |-> "none",
          construction |-> "none", audio_calls |-> 0, visual_calls |-> 0,
          seen |-> None]
    ELSE CtlPlayStart(c, a, v, tm, t, made, cfg, os)

\* pause without the guard on is_playing
CtlPauseUnconditional(c, a, v, tm) ==
    LET w == VisualPause(v, tm)
        c1 == [c EXCEPT !.is_playing = FALSE]
    IN [ctl |-> [c1 EXCEPT !.is_paused = TRUE],
        audio |-> AudioPause(a), visual |-> w.visual, timers |-> w.timers,
        audio_calls |-> 1, visual_calls |-> 1, seen |-> Notified(c1)]

\* StateInductionController.pause.  audio_calls, visual_calls: how often
\* audio_stimulus.pause() and visual_stimulus.pause() were invoked.
CtlPause(c, a, v, tm) ==
    IF c.is_playing
    THEN LET w == VisualPause(v, tm)
             c1 == [c EXCEPT !.is_playing = FALSE]
         IN [ctl |-> [c1 EXCEPT !.is_paused = TRUE],
             audio |-> AudioPause(a), visual |-> w.visual, timers |-> w.timers,
             audio_calls |-> 1, visual_calls |-> 1, seen |-> Notified(c1)]
    ELSE [ctl |-> c, audio |-> a, visual |-> v, timers |-> tm,
          audio_calls |-> 0, visual_calls |-> 0, seen |-> None]

\* stop acting only on a playing coordinator, as pause does
CtlStopIfPlaying(c, a, v, tm, t) ==
    IF c.is_playing
    THEN LET w == VisualStop(v, tm)
             c1 == [c EXCEPT !.is_playing = FALSE, !.is_paused = FALSE]
             c2 == IF c1.start_time # None
                   THEN [c1 EXCEPT
                           !.elapsed_time =
                               IF c1.elapsed_time = None
                               THEN Some(t - Val(c1.start_time))
                               ELSE Some(Val(c1.elapsed_time)
                                         + (t - Val(c1.start_time))),
                           !.start_time = None]
                   ELSE c1
         IN [ctl |-> c2, audio |-> AudioStop(a), visual |-> w.visual,
             timers |-> w.timers, seen |-> Notified(c2)]
    ELSE [ctl |-> c, audio |-> a, visual |-> v, timers |-> tm, seen |-> None]

\* StateInductionController.stop, at time t
CtlStop(c, a, v, tm, t) ==
    LET w == VisualStop(v, tm)
        c1 == [c EXCEPT !.is_playing = FALSE, !.is_paused = FALSE]
        c2 == IF c1.start_time # None
              THEN [c1 EXCEPT
                      !.elapsed_time =
                          IF c1.elapsed_time = None
                          THEN Some(t - Val(c1.start_time))
                          ELSE Some(Val(c1.elapsed_time) + (t - Val(c1.start_time))),
                      !.start_time = None]
              ELSE c1
    IN [ctl |-> c2, audio |-> AudioStop(a), visual |-> w.visual, timers |-> w.timers,
        seen |-> Notified(c2)]

---------------------------------------------------------------------------
(* ElevateSettings.  Frequencies in Hz. *)

\* ElevateSettings.BASE_FREQUENCY_RANGE, CHANNEL_OFFSET_RANGE
BaseFrequencyRange == <<20, 300>>
ChannelOffsetRange == <<1, 100>>

\* the values stored under base-frequency and channel-offset before any
\* assignment: DEFAULT_BASE_FREQUENCY and the channel_offset property's default
SettingsInit == [base_frequency |-> 30, channel_offset |-> 6]

\* the values assigned to the settings' base_frequency and channel_offset
SettingsBaseInputs == {-5, 0, 19, 20, 21, 150, 299, 300, 301, 1000}
SettingsOffsetInputs == {-5, 0, 1, 2, 50, 99, 100, 101, 1000}

\* a settings setter persisting the value as given
SettingsSetBaseFrequencyAsGiven(cfg, value) ==
    [cfg EXCEPT !.base_frequency = value]

\* ElevateSettings.base_frequency.setter
SettingsSetBaseFrequency(cfg, value) ==
    LET lo == BaseFrequencyRange[1]
        hi == BaseFrequencyRange[2]
        v == IF ~(lo <= value /\ value <= hi) THEN Max(lo, Min(hi, value))
             ELSE value
    IN [cfg EXCEPT !.base_frequency = v]

\* ElevateSettings.channel_offset.setter
SettingsSetChannelOffset(cfg, value) ==
    LET lo == ChannelOffsetRange[1]
        hi == ChannelOffsetRange[2]
        v == IF ~(lo <= value /\ value <= hi) THEN Max(lo, Min(hi, value))
             ELSE value
    IN [cfg EXCEPT !.channel_offset = v]

\* ElevateSettings.base_frequency, channel_offset (the getters)
SettingsBaseFrequency(cfg) == cfg.base_frequency
SettingsChannelOffset(cfg) == cfg.channel_offset

---------------------------------------------------------------------------
(* The animation registry.  A name is the sequence of its characters. *)

BallName == <<"b", "a", "l", "l">>
ColorName == <<"c", "o", "l", "o", "r">>
PulseName == <<"p", "u", "l", "s", "e">>

\* _REGISTRY as the module defines it
RegistryInit ==
    (BallName :> "BouncyBallAnimation") @@ (ColorName :> "ColorLayersAnimation")

\* str.lower on one character
LowerChar(c) ==
    CASE c = "T" -> "t"
      [] c = "B" -> "b"
      [] OTHER -> c

\* str.lower
Lower(name) == [i \in 1..Len(name) |-> LowerChar(name[i])]

\* str.strip
RECURSIVE Strip(_)
Strip(name) ==
    IF name = <<>> THEN name
    ELSE IF Head(name) = " " THEN Strip(Tail(name))
    ELSE IF name[Len(name)] = " " THEN Strip(SubSeq(name, 1, Len(name) - 1))
    ELSE name

\* key_map of get_animation_class
KeyMap(key) ==
    CASE key = <<"0">> -> ColorName
      [] key = <<"1">> -> PulseName
      [] key = <<"2">> -> BallName
      [] OTHER -> key

\* get_animation_class
GetAnimationClass(reg, name) ==
    LET key == Strip(Lower(name))
        mapped_key == KeyMap(key)
    IN IF mapped_key = PulseName THEN "BouncyBallAnimation"
       ELSE IF mapped_key \in DOMAIN reg THEN reg[mapped_key]
       ELSE "ColorLayersAnimation"

\* register
RegisterOp(reg, name, cls) ==
    [k \in DOMAIN reg \cup {name} |-> IF k = name THEN cls ELSE reg[k]]

---------------------------------------------------------------------------
(* The tone model and the coordinator as a state machine *)

\* the outcomes of a pair of frequency writes: the second write is attempted
\* only if the first succeeded
OutcomePairs == {<<"ok", "ok">>}
                \cup {<<e, "ok">> : e \in ErrorClasses}
                \cup {<<"ok", e>> : e \in ErrorClasses}

NoErrors == [at |-> 0, err |-> "ok"]

NoObservation ==
    [op |-> "init", raised |-> "none", failed |-> FALSE, construction |-> "none",
     was_playing |-> FALSE, was_paused |-> FALSE, applied |-> FALSE, arg |-> 0,
     sent |-> None, audio_calls |-> 0, visual_calls |-> 0,
     name |-> None, cls |-> None, drawn |-> "none", animation_calls |-> 0,
     removed |-> 0, wrote_in |-> {}, seen |-> None]

\* a burst: the time of its last assignment, the number of its assignments
\* (counted up to 2), and the callback runs and applications since it began
NoBurst == [last_assign |-> None, assigns |-> 0, runs |-> 0, applies |-> 0]

\* an assignment at time t continues the burst if it comes less than the
\* debounce delay after the previous assignment, and starts a new one otherwise
BurstAssign(b, t) ==
    IF b.last_assign # None /\ t - Val(b.last_assign) < DebounceDelay
    THEN [b EXCEPT !.last_assign = Some(t), !.assigns = Min(2, @ + 1)]
    ELSE [last_assign |-> Some(t), assigns |-> 1, runs |-> 0, applies |-> 0]

ToneInit ==
    /\ now = 0
    /\ timers = {}
    /\ audio = AudioInit
    /\ visual = VisualInit(DefaultEnableVisual)
    /\ ctl = CtlInit
    /\ last = NoObservation
    /\ played_total = 0
    /\ burst = NoBurst
    /\ config = SettingsInit
    /\ registry = RegistryInit

\* time passes
Tick ==
    /\ now < MaxTime
    /\ now' = now + TickStep
    /\ UNCHANGED <<timers, audio, visual, ctl, last, played_total, burst>>
    /\ UNCHANGED animVars
    /\ UNCHANGED restVars

\* time passes, and the time spent with is_playing true is added up
TickObserved ==
    /\ now < MaxTime
    /\ now' = now + TickStep
    /\ played_total' = played_total + (IF ctl.is_playing THEN TickStep ELSE 0)
    /\ UNCHANGED <<timers, audio, visual, ctl, last, burst>>
    /\ UNCHANGED animVars
    /\ UNCHANGED restVars

\* the settings key enable-visual-stimuli changes; the binding copies it
SetEnableVisualStimuli ==
    /\ \E value \in BOOLEAN :
         /\ value # visual.enable_visual_stimuli
         /\ visual' = [visual EXCEPT !.enable_visual_stimuli = value]
    /\ last' = [NoObservation EXCEPT !.op = "set_enable_visual_stimuli"]
    /\ UNCHANGED <<now, timers, audio, ctl, played_total, burst>>
    /\ UNCHANGED animVars
    /\ UNCHANGED restVars

\* controller.play() with the factory delivering one of mades, the
\* configuration ending as one of cfgs and the frequency writes as one of pairs
PlayWith(mades, cfgs, pairs) ==
    LET creating == ~ctl.is_playing /\ ~audio.is_playing /\ audio.pipeline = None
        writing == ~ctl.is_playing /\ ~audio.is_playing
    IN
    /\ \E made \in (IF creating THEN mades ELSE {Elements}) :
       \E cfg \in (IF creating /\ made = Elements THEN cfgs ELSE {NoErrors}) :
       \E os \in (IF writing /\ made = Elements /\ cfg.at = 0
                  THEN pairs ELSE {<<"ok", "ok">>}) :
         \E r \in {CtlPlay(ctl, audio, visual, timers, now, made, cfg, os)} :
            /\ ctl' = r.ctl
            /\ audio' = r.audio
            /\ visual' = r.visual
            /\ timers' = r.timers
            /\ last' = [NoObservation EXCEPT
                          !.op = "play",
                          !.raised = r.raised,
                          !.was_playing = audio.is_playing,
                          !.failed = (cfg.at # 0 \/ os # <<"ok", "ok">>),
                          !.construction = r.construction,
                          !.audio_calls = r.audio_calls,
                          !.visual_calls = r.visual_calls,
                          !.seen = r.seen]
    /\ UNCHANGED <<now, played_total, burst>>
    /\ UNCHANGED animVars
    /\ UNCHANGED restVars

Play == PlayWith(MadeSets, ConfigOutcomes, OutcomePairs)

\* controller.play() with a backend that delivers every element and raises nothing
PlayBackendOk == PlayWith({Elements}, {NoErrors}, {<<"ok", "ok">>})

Pause ==
    /\ \E r \in {CtlPause(ctl, audio, visual, timers)} :
          /\ ctl' = r.ctl
          /\ audio' = r.audio
          /\ visual' = r.visual
          /\ timers' = r.timers
          /\ last' = [NoObservation EXCEPT !.op = "pause",
                                           !.was_playing = ctl.is_playing,
                                           !.was_paused = ctl.is_paused,
                                           !.audio_calls = r.audio_calls,
                                           !.visual_calls = r.visual_calls,
                                           !.seen = r.seen]
    /\ UNCHANGED <<now, played_total, burst>>
    /\ UNCHANGED animVars
    /\ UNCHANGED restVars

Stop ==
    /\ \E r \in {CtlStop(ctl, audio, visual, timers, now)} :
          /\ ctl' = r.ctl
          /\ audio' = r.audio
          /\ visual' = r.visual
          /\ timers' = r.timers
          /\ last' = [NoObservation EXCEPT !.op = "stop",
                                           !.was_playing = ctl.is_playing,
                                           !.was_paused = ctl.is_paused,
                                           !.seen = r.seen]
    /\ UNCHANGED <<now, played_total, burst>>
    /\ UNCHANGED animVars
    /\ UNCHANGED restVars

SetBaseFrequency ==
    /\ \E value \in BaseFrequencies :
         \E r \in {SetBaseFrequencyOp(
                 audio, timers, UsedIds(timers, audio, visual), now, value)} :
            /\ audio' = r.audio
            /\ timers' = r.timers
            /\ last' = [NoObservation EXCEPT !.op = "set_base_frequency",
                                             !.arg = value]
    /\ burst' = BurstAssign(burst, now)
    /\ UNCHANGED <<now, visual, ctl, played_total>>
    /\ UNCHANGED animVars
    /\ UNCHANGED restVars

SetChannelOffset ==
    /\ \E value \in ChannelOffsets :
         \E r \in {SetChannelOffsetOp(
                 audio, timers, UsedIds(timers, audio, visual), now, value)} :
            /\ audio' = r.audio
            /\ timers' = r.timers
            /\ last' = [NoObservation EXCEPT !.op = "set_channel_offset",
                                             !.arg = value]
    /\ burst' = BurstAssign(burst, now)
    /\ UNCHANGED <<now, visual, ctl, played_total>>
    /\ UNCHANGED animVars
    /\ UNCHANGED restVars

\* set_volume(value) with the property write ending as one of outcomes
SetVolumeWith(outcomes) ==
    /\ \E value \in VolumeInputs :
       \E o \in (IF audio.volume_element # None THEN outcomes ELSE {"ok"}) :
         \E r \in {AudioSetVolume(audio, value, o)} :
            /\ audio' = r.audio
            /\ last' = [NoObservation EXCEPT
                          !.op = "set_volume", !.raised = r.raised,
                          !.failed = (o # "ok"), !.arg = value,
                          !.sent = r.sent]
    /\ UNCHANGED <<now, timers, visual, ctl, played_total, burst>>
    /\ UNCHANGED animVars
    /\ UNCHANGED restVars

SetVolume == SetVolumeWith(Outcomes)

\* set_volume(value) with a backend that raises nothing
SetVolumeBackendOk == SetVolumeWith({"ok"})

\* the main loop dispatches a due debounce timeout; the callback returns False
\* and the source is destroyed.  The frequency writes end as one of pairs.
FrequencyTimerFiresWith(pairs) ==
    /\ \E tmr \in timers :
         /\ tmr.cb = "freq"
         /\ now >= tmr.due
         /\ \E os \in (IF audio.pending_frequency_update /\ audio.source_left # None
                          /\ audio.source_right # None
                       THEN pairs ELSE {<<"ok", "ok">>}) :
              \E r \in {ApplyFrequencyUpdate(audio, os)} :
                 /\ audio' = r.audio
                 /\ timers' = timers \ {tmr}
                 /\ last' = [NoObservation EXCEPT
                               !.op = "apply",
                               !.raised = r.raised,
                               !.was_playing = audio.is_playing,
                               !.failed = (os # <<"ok", "ok">>),
                               !.applied = r.applied,
                               !.wrote_in = r.wrote_in]
                 /\ burst' = [burst EXCEPT
                                !.runs = @ + 1,
                                !.applies = @ + (IF r.applied THEN 1 ELSE 0)]
    /\ UNCHANGED <<now, visual, ctl, played_total>>
    /\ UNCHANGED animVars
    /\ UNCHANGED restVars

FrequencyTimerFires == FrequencyTimerFiresWith(OutcomePairs)

\* the debounce timeout dispatched with a backend that raises nothing
FrequencyTimerFiresBackendOk == FrequencyTimerFiresWith({<<"ok", "ok">>})

\* audio_stimulus.play() called directly, with the factory delivering one of
\* mades, the configuration ending as one of cfgs and the frequency writes as
\* one of pairs
TonePlayWith(mades, cfgs, pairs) ==
    LET creating == ~audio.is_playing /\ audio.pipeline = None
        writing == ~audio.is_playing
    IN
    /\ \E made \in (IF creating THEN mades ELSE {Elements}) :
       \E cfg \in (IF creating /\ made = Elements THEN cfgs ELSE {NoErrors}) :
       \E os \in (IF writing /\ made = Elements /\ cfg.at = 0
                  THEN pairs ELSE {<<"ok", "ok">>}) :
         \E r \in {AudioPlay(audio, made, cfg, os)} :
            /\ audio' = r.audio
            /\ last' = [NoObservation EXCEPT
                          !.op = "play",
                          !.raised = r.raised,
                          !.was_playing = audio.is_playing,
                          !.was_paused = (audio.pipeline # None /\
                                          Val(audio.pipeline).state = "PAUSED"),
                          !.failed = (cfg.at # 0 \/ os # <<"ok", "ok">>),
                          !.construction = r.construction,
                          !.wrote_in = r.wrote_in]
    /\ UNCHANGED <<now, timers, visual, ctl, played_total, burst>>
    /\ UNCHANGED animVars
    /\ UNCHANGED restVars

TonePlay == TonePlayWith(MadeSets, ConfigOutcomes, OutcomePairs)

\* audio_stimulus.play() with a factory that delivers every element and a
\* configuration that raises nothing
TonePlayConstructed == TonePlayWith({Elements}, {NoErrors}, OutcomePairs)

\* audio_stimulus.play() with a backend that delivers every element and
\* raises nothing
TonePlayBackendOk == TonePlayWith({Elements}, {NoErrors}, {<<"ok", "ok">>})

\* audio_stimulus.pause() called directly
TonePause ==
    /\ audio' = AudioPause(audio)
    /\ last' = [NoObservation EXCEPT !.op = "pause"]
    /\ UNCHANGED <<now, timers, visual, ctl, played_total, burst>>
    /\ UNCHANGED animVars
    /\ UNCHANGED restVars

\* audio_stimulus.stop() called directly
ToneStop ==
    /\ audio' = AudioStop(audio)
    /\ last' = [NoObservation EXCEPT !.op = "stop"]
    /\ UNCHANGED <<now, timers, visual, ctl, played_total, burst>>
    /\ UNCHANGED animVars
    /\ UNCHANGED restVars

\* the values of the stimuli_type property
StimuliTypes == {0, 1}

\* visual_stimulus.set_widget(widget), by the renderer or with None
SetWidget ==
    /\ \E widget \in BOOLEAN :
         /\ widget # visual.widget
         /\ visual' = VisualSetWidget(visual, widget)
    /\ last' = [NoObservation EXCEPT !.op = "set_widget"]
    /\ UNCHANGED <<now, timers, audio, ctl, played_total, burst>>
    /\ UNCHANGED animVars
    /\ UNCHANGED restVars

\* visual_stimulus.stimuli_type = value
SetStimuliType ==
    /\ \E value \in StimuliTypes :
         /\ value # visual.stimuli_type
         /\ visual' = VisualSetStimuliType(visual, value)
    /\ last' = [NoObservation EXCEPT !.op = "set_stimuli_type"]
    /\ UNCHANGED <<now, timers, audio, ctl, played_total, burst>>
    /\ UNCHANGED animVars
    /\ UNCHANGED restVars

\* visual_stimulus.play() called directly
VisualStimulusPlay ==
    /\ \E r \in {VisualPlay(visual, timers, UsedIds(timers, audio, visual), now)} :
         /\ visual' = r.visual
         /\ timers' = r.timers
    /\ last' = [NoObservation EXCEPT !.op = "visual_play",
                                     !.was_playing = visual.is_playing]
    /\ UNCHANGED <<now, audio, ctl, played_total, burst>>
    /\ UNCHANGED animVars
    /\ UNCHANGED restVars

\* visual_stimulus.pause() called directly
VisualStimulusPause ==
    /\ \E r \in {VisualPause(visual, timers)} :
         /\ visual' = r.visual
         /\ timers' = r.timers
    /\ last' = [NoObservation EXCEPT
                  !.op = "visual_pause",
                  !.was_playing = visual.is_playing,
                  !.removed = Cardinality(timers) - Cardinality(timers')]
    /\ UNCHANGED <<now, audio, ctl, played_total, burst>>
    /\ UNCHANGED animVars
    /\ UNCHANGED restVars

\* visual_stimulus.stop() called directly
VisualStimulusStop ==
    /\ \E r \in {VisualStop(visual, timers)} :
         /\ visual' = r.visual
         /\ timers' = r.timers
    /\ last' = [NoObservation EXCEPT
                  !.op = "visual_stop",
                  !.was_playing = visual.is_playing,
                  !.removed = Cardinality(timers) - Cardinality(timers')]
    /\ UNCHANGED <<now, audio, ctl, played_total, burst>>
    /\ UNCHANGED animVars
    /\ UNCHANGED restVars

\* the main loop dispatches the due animation timeout; the source stays
\* attached, due one interval later, while the callback returns
\* SOURCE_CONTINUE, and is destroyed when it returns SOURCE_REMOVE
AnimationTimerFires ==
    /\ \E tmr \in timers :
         /\ tmr.cb = "anim"
         /\ now >= tmr.due
         /\ \E r \in {VisualAnimate(visual, now)} :
              /\ visual' = r.visual
              /\ timers' = IF r.continue
                            THEN (timers \ {tmr})
                                 \cup {[tmr EXCEPT !.due = now + AnimationInterval]}
                            ELSE timers \ {tmr}
              /\ last' = [NoObservation EXCEPT !.op = "animate",
                                               !.applied = r.continue,
                                               !.animation_calls = r.update_calls]
    /\ UNCHANGED <<now, audio, ctl, played_total, burst>>
    /\ UNCHANGED animVars
    /\ UNCHANGED restVars

\* the widget's draw function calls visual_stimulus.render
VisualStimulusRender ==
    /\ \E r \in {VisualRender(visual)} :
         /\ visual' = r.visual
         /\ last' = [NoObservation EXCEPT !.op = "visual_render",
                                          !.was_playing = visual.is_playing,
                                          !.drawn = r.drawn,
                                          !.animation_calls = r.animation_calls]
    /\ UNCHANGED <<now, timers, audio, ctl, played_total, burst>>
    /\ UNCHANGED animVars
    /\ UNCHANGED restVars

\* settings.base_frequency = value
SettingsAssignBaseFrequency ==
    /\ \E value \in SettingsBaseInputs :
         /\ config' = SettingsSetBaseFrequency(config, value)
         /\ last' = [NoObservation EXCEPT !.op = "settings_base_frequency",
                                          !.arg = value]
    /\ UNCHANGED <<now, timers, audio, visual, ctl, played_total, burst, registry>>
    /\ UNCHANGED animVars

\* settings.channel_offset = value
SettingsAssignChannelOffset ==
    /\ \E value \in SettingsOffsetInputs :
         /\ config' = SettingsSetChannelOffset(config, value)
         /\ last' = [NoObservation EXCEPT !.op = "settings_channel_offset",
                                          !.arg = value]
    /\ UNCHANGED <<now, timers, audio, visual, ctl, played_total, burst, registry>>
    /\ UNCHANGED animVars

\* the names register is called with: "t", "T", " t", "0", "pulse"
RegisterNames == {<<"t">>, <<"T">>, <<" ", "t">>, <<"0">>, PulseName}

\* the classes register is called with
RegisterClasses == {"TestAnimation", "BouncyBallAnimation"}

\* the names get_animation_class is called with: those registered, and
\* "ball", "Ball", "color", "n", "1", "2"
LookupNames ==
    RegisterNames \cup {BallName, <<"B", "a", "l", "l">>, ColorName, <<"n">>,
                        <<"1">>, <<"2">>}

\* register(name, cls)
Register ==
    /\ \E name \in RegisterNames : \E cls \in RegisterClasses :
         /\ registry' = RegisterOp(registry, name, cls)
         /\ last' = [NoObservation EXCEPT !.op = "register",
                                          !.name = Some(name), !.cls = Some(cls)]
    /\ UNCHANGED <<now, timers, audio, visual, ctl, played_total, burst, config>>
    /\ UNCHANGED animVars

\* get_animation_class(name)
GetAnimation ==
    /\ \E name \in LookupNames :
         last' = [NoObservation EXCEPT
                    !.op = "get_animation_class",
                    !.name = Some(name),
                    !.cls = Some(GetAnimationClass(registry, name))]
    /\ UNCHANGED <<now, timers, audio, visual, ctl, played_total, burst, config,
                   registry>>
    /\ UNCHANGED animVars

---------------------------------------------------------------------------
(* BouncyBallAnimation.  Times are in quarter seconds. *)

\* the canonical labels of _render_phase_cue, by phase index 0..3
CanonicalCue == <<"Inhale", "Hold", "Exhale", "Hold">>

\* phase_durations after __init__: (4.0, 4.0, 4.0, 4.0) seconds
DefaultCycle == <<16, 16, 16, 16>>

\* phase_cues after __init__
DefaultCues == <<Some("Inhale"), Some("Hold"), Some("Exhale"), Some("Hold")>>

\* the cycles set_breath_cycle is called with: all zero, (2, 1, 2, 1) s,
\* no inhale, (0.5, 0.5, 0.5, 0.5) s
Cycles == {<<0, 0, 0, 0>>, <<8, 4, 8, 4>>, <<0, 4, 8, 4>>, <<2, 2, 2, 2>>}

\* the cue tuples set_phase_cues is called with
CueSets == {DefaultCues,
            <<None, None, None, None>>,
            <<Some("Inhale"), None, Some("Breathe out"), Some("Hold")>>}

\* the time steps update() is called with
TimeSteps == {1, 3}

\* update() is not called once the accumulated time has reached MaxAnimTime
MaxAnimTime == 10

\* the times is_phase_active is asked about while the engine is driven
QueryTimes == {0, 5}

\* phase durations of the cycles is_phase_active is examined with: 0..MaxDuration
MaxDuration == 3
Durations == 0..MaxDuration
AllCycles == {<<a, b, c, d>> : a \in Durations, b \in Durations,
                               c \in Durations, d \in Durations}

\* the cycles in which each phase is either empty or of the longest duration:
\* every subset of zero-duration phases, the all-zero cycle among them
ZeroPatterns == {c \in AllCycles : \A k \in 1..4 : c[k] \in {0, MaxDuration}}

\* is_phase_active is examined at every time up to one past the longest cycle
QueryHorizon == 4 * MaxDuration + 1

\* sum(self.phase_durations[:k])
RECURSIVE SumTo(_, _)
SumTo(d, k) == IF k = 0 THEN 0 ELSE SumTo(d, k - 1) + d[k]

\* the list _update_cached_values builds: [0, d0, d0+d1, d0+d1+d2, total]
PhaseEnds(d) == [k \in 1..5 |-> SumTo(d, k - 1)]

\* BRAIN_WAVE_COLORS: the colour schemes, channels in thousandths
BrainWaveColors ==
    [delta |-> [breath |-> <<100, 100, 400>>, hold |-> <<200, 0, 300>>,
                background |-> <<50, 50, 200>>],
     theta |-> [breath |-> <<200, 600, 900>>, hold |-> <<600, 400, 800>>,
                background |-> <<200, 200, 600>>]]

\* the states set_brain_wave_state is called with
BrainWaveStates == {"delta", "theta"}

\* pulse_factor after __init__: 0.05, in hundredths
PulsePercent == 5

\* fade_duration after __init__: 0.5 s
DefaultFadeDuration == 2

\* the fade durations the engine is constructed with: none, 0.5 s, 1 s
FadeDurations == {0, 2, 4}

\* min(width, height) / 2 for the 1920 x 1920 drawing area render is given
MaxRadius == 960

\* BouncyBallAnimation.__init__ with the given fade_duration
BallNew(fade) ==
    [phase_durations |-> DefaultCycle, phase_cues |-> DefaultCues, t |-> 0,
     phase_ends |-> None, total_cycle |-> None, fade_half |-> None,
     last_phase |-> None, last_cue_text |-> None,
     fade_duration |-> fade,
     breath_color |-> BrainWaveColors.theta.breath,
     hold_color |-> BrainWaveColors.theta.hold,
     background |-> BrainWaveColors.theta.background]

\* BouncyBallAnimation.__init__ with its default arguments
BallInit == BallNew(DefaultFadeDuration)

\* BouncyBallAnimation._update_cached_values
UpdateCachedValues(b) ==
    IF b.total_cycle = None
    THEN [b EXCEPT !.total_cycle = Some(SumTo(b.phase_durations, 4)),
                   !.fade_half = Some(b.fade_duration \div 2),
                   !.phase_ends = Some(PhaseEnds(b.phase_durations))]
    ELSE b

\* BouncyBallAnimation.reset
BallReset(b) == [b EXCEPT !.t = 0, !.last_phase = None]

\* BouncyBallAnimation.set_breath_cycle
BallSetBreathCycle(b, cycle) == [b EXCEPT !.phase_durations = cycle]

\* BouncyBallAnimation.set_brain_wave_state with a state of BRAIN_WAVE_COLORS:
\* the colours change and the cached cycle total is dropped
BallSetBrainWaveState(b, state) ==
    [b EXCEPT !.breath_color = BrainWaveColors[state].breath,
              !.hold_color = BrainWaveColors[state].hold,
              !.background = BrainWaveColors[state].background,
              !.total_cycle = None]

\* BouncyBallAnimation.set_phase_cues
BallSetPhaseCues(b, cues) == [b EXCEPT !.phase_cues = cues]

\* BouncyBallAnimation.update
BallUpdate(b, dt) == [b EXCEPT !.t = b.t + dt]

\* is_phase_active with the phase's interval closed at its end
IsPhaseActiveClosed(b, phase_index, t) ==
    LET d == b.phase_durations
        total == SumTo(d, 4)
        phase_start == SumTo(d, phase_index)
        phase_end == phase_start + d[phase_index + 1]
    IN IF total = 0 THEN FALSE
       ELSE phase_start <= t % total /\ t % total <= phase_end

\* BouncyBallAnimation.is_phase_active(phase_index, t), phase_index in 0..3
IsPhaseActive(b, phase_index, t) ==
    LET d == b.phase_durations
        total == SumTo(d, 4)
        phase_start == SumTo(d, phase_index)
        phase_end == phase_start + d[phase_index + 1]
    IN IF total = 0 THEN FALSE
       ELSE phase_start <= t % total /\ t % total < phase_end

\* 0.5 * (1 + cos(2 pi pulse_time + pi)), the pulsation of phase2 and phase4
\* with its period of 1 s, in halves: 0, 1/2, 1, 1/2 at 0, 1, 2, 3 quarter seconds
PulseHalves(pulse_time) ==
    CASE pulse_time % 4 = 0 -> 0
      [] pulse_time % 4 = 2 -> 2
      [] OTHER -> 1

\* phase1 growing to max_radius, the pulse factor left out
Phase1ToMaxRadius(b, t, max_radius) ==
    LET duration == b.phase_durations[1]
    IN IF duration = 0
       THEN [radius |-> 0, color |-> b.breath_color, raised |-> "none"]
       ELSE [radius |-> (t * max_radius) \div duration,
             color |-> b.breath_color, raised |-> "none"]

\* phase1 without the test for a zero duration
Phase1Unguarded(b, t, max_radius) ==
    LET duration == b.phase_durations[1]
    IN IF duration = 0
       THEN [radius |-> 0, color |-> b.breath_color,
             raised |-> "ZeroDivisionError"]
       ELSE [radius |-> (t * max_radius * (100 - PulsePercent))
                            \div (duration * 100),
             color |-> b.breath_color, raised |-> "none"]

\* BouncyBallAnimation.phase1(t, max_radius): radius, base colour, and the
\* exception raised ("none" if none)
Phase1(b, t, max_radius) ==
    LET duration == b.phase_durations[1]
    IN IF duration = 0
       THEN [radius |-> 0, color |-> b.breath_color, raised |-> "none"]
       ELSE [radius |-> (t * max_radius * (100 - PulsePercent))
                            \div (duration * 100),
             color |-> b.breath_color, raised |-> "none"]

\* BouncyBallAnimation.phase2(t, max_radius)
Phase2(b, t, max_radius) ==
    LET pulse_time == t - b.phase_durations[1]
        min_radius == (max_radius * (100 - PulsePercent)) \div 100
    IN [radius |-> min_radius
                     + ((max_radius - min_radius) * PulseHalves(pulse_time)) \div 2,
        color |-> b.hold_color, raised |-> "none"]

\* BouncyBallAnimation.phase3(t, max_radius)
Phase3(b, t, max_radius) ==
    LET phase_start == SumTo(b.phase_durations, 2)
        duration == b.phase_durations[3]
    IN IF duration = 0
       THEN [radius |-> 0, color |-> b.breath_color, raised |-> "none"]
       ELSE [radius |-> ((duration - (t - phase_start)) * max_radius
                             * (100 - PulsePercent)) \div (duration * 100),
             color |-> b.breath_color, raised |-> "none"]

\* BouncyBallAnimation.phase4(t, max_radius)
Phase4(b, t, max_radius) ==
    LET phase_start == SumTo(b.phase_durations, 3)
        pulse_time == t - phase_start
    IN [radius |-> (max_radius * PulsePercent * PulseHalves(pulse_time)) \div 200,
        color |-> b.hold_color, raised |-> "none"]

\* the phase function render calls in branch k of its if/elif chain
PhaseOf(b, k, t, max_radius) ==
    CASE k = 1 -> Phase1(b, t, max_radius)
      [] k = 2 -> Phase2(b, t, max_radius)
      [] k = 3 -> Phase3(b, t, max_radius)
      [] OTHER -> Phase4(b, t, max_radius)

\* BouncyBallAnimation.interpolate_color with alpha = num / den
InterpolateColor(color1, color2, num, den) ==
    [k \in 1..3 |-> color1[k] + ((color2[k] - color1[k]) * num) \div den]

\* the boundaries i in 1..4 whose fade window holds t:
\* end - fade_half < t < end + fade_half
FadeWindows(ends, fade_half, t) ==
    {i \in 1..4 : ends[i + 1] - fade_half < t /\ t < ends[i + 1] + fade_half}

\* render's fade loop with the wrap-around test before it, the loop's result
\* standing when both apply
FadeColorLoopLast(b, ends, fade_half, t, base_color) ==
    LET ws == FadeWindows(ends, fade_half, t)
        i == CHOOSE w \in ws : \A x \in ws : w <= x
        odd == i % 2 = 1
    IN IF ws # {}
       THEN IF b.fade_duration = 0
            THEN [color |-> base_color, raised |-> "ZeroDivisionError"]
            ELSE [color |-> InterpolateColor(
                               IF odd THEN b.breath_color ELSE b.hold_color,
                               IF odd THEN b.hold_color ELSE b.breath_color,
                               t - (ends[i + 1] - fade_half), b.fade_duration),
                  raised |-> "none"]
       ELSE IF t < fade_half
       THEN [color |-> InterpolateColor(b.hold_color, b.breath_color,
                                        t + fade_half, b.fade_duration),
             raised |-> "none"]
       ELSE [color |-> base_color, raised |-> "none"]

\* render's colour: the fade of the first boundary whose window holds t
\* (the loop breaks there), then the wrap-around fade when t < fade_half,
\* which replaces the loop's result
FadeColor(b, ends, fade_half, t, base_color) ==
    LET ws == FadeWindows(ends, fade_half, t)
        i == CHOOSE w \in ws : \A x \in ws : w <= x
        odd == i % 2 = 1
    IN IF ws # {} /\ b.fade_duration = 0
       THEN [color |-> base_color, raised |-> "ZeroDivisionError"]
       ELSE IF t < fade_half
       THEN IF b.fade_duration = 0
            THEN [color |-> base_color, raised |-> "ZeroDivisionError"]
            ELSE [color |-> InterpolateColor(b.hold_color, b.breath_color,
                                             t + fade_half, b.fade_duration),
                  raised |-> "none"]
       ELSE IF ws # {}
       THEN [color |-> InterpolateColor(
                          IF odd THEN b.breath_color ELSE b.hold_color,
                          IF odd THEN b.hold_color ELSE b.breath_color,
                          t - (ends[i + 1] - fade_half), b.fade_duration),
             raised |-> "none"]
       ELSE [color |-> base_color, raised |-> "none"]

\* Python's a % n: its value, and the ZeroDivisionError it raises for n = 0
PyMod(a, n) ==
    IF n = 0 THEN [value |-> 0, raised |-> "ZeroDivisionError"]
    ELSE [value |-> a % n, raised |-> "none"]

\* what is_phase_active(phase_index, t) raises ("none" if nothing): it
\* returns before its modulo when the durations sum to 0
IsPhaseActiveRaised(b, t) ==
    LET total == SumTo(b.phase_durations, 4)
    IN IF total = 0 THEN "none" ELSE PyMod(t, total).raised

\* the branch of render's if/elif chain taken at cycle position t: 1..4
RadiusPhase(ends, t) ==
    IF t <= ends[2] THEN 1
    ELSE IF t <= ends[3] THEN 2
    ELSE IF t <= ends[4] THEN 3
    ELSE 4

\* render's "current_phase": the first index i in 0..3 with t <= ends[i+1],
\* 0 if there is none
CurrentPhase(ends, t) ==
    IF \E i \in 0..3 : t <= ends[i + 2]
    THEN CHOOSE i \in 0..3 : t <= ends[i + 2] /\ \A j \in 0..(i - 1) : ~(t <= ends[j + 2])
    ELSE 0

\* _render_phase_cue drawing whatever text the slot holds
RenderPhaseCueAnyText(b, phase_index) ==
    b.phase_cues[phase_index + 1]

\* BouncyBallAnimation._render_phase_cue: the text drawn, None if none is
RenderPhaseCue(b, phase_index) ==
    IF b.phase_cues[phase_index + 1] # Some(CanonicalCue[phase_index + 1])
    THEN None
    ELSE b.phase_cues[phase_index + 1]

\* no frame is on display: nothing rendered yet, or the engine was changed
\* since the last render
NoFrame ==
    [fresh |-> FALSE, background_only |-> FALSE, total |-> 0, t |-> 0,
     phase_ends |-> None, radius_phase |-> 0, cue_phase |-> 0, cue_text |-> None,
     radius |-> 0, color |-> None, raised |-> "none"]

\* BouncyBallAnimation.render: the object after the call and what was drawn
BallRender(b) ==
    LET b1 == UpdateCachedValues(b)
        total == Val(b1.total_cycle)
        ends == Val(b1.phase_ends)
    IN IF total = 0
       THEN [ball |-> b1,
             frame |-> [NoFrame EXCEPT !.fresh = TRUE, !.background_only = TRUE,
                                       !.phase_ends = Some(ends)]]
       ELSE
         LET t == b1.t % total
             k == RadiusPhase(ends, t)
             ph == PhaseOf(b1, k, t, MaxRadius)
             fc == FadeColor(b1, ends, Val(b1.fade_half), t, ph.color)
             current_phase == CurrentPhase(ends, t)
             cue == b1.phase_cues[current_phase + 1]
             first == cue # None /\ b1.last_phase # Some(current_phase)
             again == cue # None /\ b1.last_phase = Some(current_phase)
                      /\ b1.last_cue_text = cue
             b2 == IF first
                   THEN [b1 EXCEPT !.last_phase = Some(current_phase),
                                   !.last_cue_text = cue]
                   ELSE b1
             drawn == [fresh |-> TRUE, background_only |-> FALSE,
                       total |-> total, t |-> t, phase_ends |-> Some(ends),
                       radius_phase |-> k, cue_phase |-> current_phase,
                       cue_text |-> None, radius |-> 0, color |-> None,
                       raised |-> "none"]
         IN IF ph.raised # "none"
            THEN [ball |-> b1, frame |-> [drawn EXCEPT !.raised = ph.raised]]
            ELSE IF fc.raised # "none"
            THEN [ball |-> b1, frame |-> [drawn EXCEPT !.raised = fc.raised]]
            ELSE [ball |-> b2,
                  frame |-> [drawn EXCEPT
                               !.radius = ph.radius,
                               !.color = Some(fc.color),
                               !.cue_text = IF first \/ again
                                            THEN RenderPhaseCue(b2, current_phase)
                                            ELSE None]]

\* nothing asked of is_phase_active yet
NoQuery ==
    [asked |-> FALSE, t |-> 0, results |-> [i \in 0..3 |-> FALSE],
     raised |-> "none"]

\* phase1 and phase3 not called yet
NoMeasure == [asked |-> FALSE, t |-> 0, phase1 |-> 0, phase3 |-> 0]

AnimInit ==
    /\ anim = BallInit
    /\ frame = NoFrame
    /\ active = NoQuery
    /\ measured = NoMeasure

Reset ==
    /\ anim' = BallReset(anim)
    /\ frame' = NoFrame
    /\ active' = NoQuery
    /\ UNCHANGED measured
    /\ UNCHANGED toneVars
    /\ UNCHANGED restVars

\* set_breath_cycle called with one of the given cycles
SetBreathCycleWith(cycles) ==
    /\ \E cycle \in cycles : anim' = BallSetBreathCycle(anim, cycle)
    /\ frame' = NoFrame
    /\ active' = NoQuery
    /\ UNCHANGED measured
    /\ UNCHANGED toneVars
    /\ UNCHANGED restVars

SetBreathCycle == SetBreathCycleWith(Cycles)

\* set_breath_cycle called with a cycle in which any of the phases has
\* duration zero
SetBreathCycleDegenerate == SetBreathCycleWith(ZeroPatterns)

SetBrainWaveState ==
    /\ \E state \in BrainWaveStates : anim' = BallSetBrainWaveState(anim, state)
    /\ frame' = NoFrame
    /\ active' = NoQuery
    /\ UNCHANGED measured
    /\ UNCHANGED toneVars
    /\ UNCHANGED restVars

SetPhaseCues ==
    /\ \E cues \in CueSets : anim' = BallSetPhaseCues(anim, cues)
    /\ frame' = NoFrame
    /\ active' = NoQuery
    /\ UNCHANGED measured
    /\ UNCHANGED toneVars
    /\ UNCHANGED restVars

Update ==
    /\ anim.t < MaxAnimTime
    /\ \E dt \in TimeSteps : anim' = BallUpdate(anim, dt)
    /\ frame' = NoFrame
    /\ active' = NoQuery
    /\ UNCHANGED measured
    /\ UNCHANGED toneVars
    /\ UNCHANGED restVars

Render ==
    /\ \E r \in {BallRender(anim)} :
          /\ anim' = r.ball
          /\ frame' = r.frame
    /\ active' = NoQuery
    /\ UNCHANGED measured
    /\ UNCHANGED toneVars
    /\ UNCHANGED restVars

\* is_phase_active(i, t) called for each phase index i at one of the given times
IsPhaseActiveWith(times) ==
    /\ \E t \in times :
         active' = [asked |-> TRUE, t |-> t,
                    results |-> [i \in 0..3 |-> IsPhaseActive(anim, i, t)],
                    raised |-> IsPhaseActiveRaised(anim, t)]
    /\ UNCHANGED <<anim, frame>>
    /\ UNCHANGED measured
    /\ UNCHANGED toneVars
    /\ UNCHANGED restVars

IsPhaseActiveNow == IsPhaseActiveWith(QueryTimes)

IsPhaseActiveAnyTime == IsPhaseActiveWith(0..QueryHorizon)

\* an engine on which set_breath_cycle was called with any cycle of AllCycles
PhaseInit ==
    /\ ToneInit
    /\ \E cycle \in AllCycles : anim = BallSetBreathCycle(BallInit, cycle)
    /\ frame = NoFrame
    /\ active = NoQuery
    /\ measured = NoMeasure

\* phase1(t, max_radius) and phase3(t, max_radius) called directly, at a time
\* t up to the length of the engine's cycle
MeasurePhases ==
    /\ \E t \in 0..SumTo(anim.phase_durations, 4) :
         measured' = [asked |-> TRUE, t |-> t,
                      phase1 |-> Phase1(anim, t, MaxRadius).radius,
                      phase3 |-> Phase3(anim, t, MaxRadius).radius]
    /\ UNCHANGED <<anim, frame, active>>
    /\ UNCHANGED toneVars
    /\ UNCHANGED restVars

\* an engine on which set_breath_cycle was called with any cycle of AllCycles,
\* or with (2, 1, 2, 1) s
RadiusInit ==
    /\ ToneInit
    /\ \E cycle \in AllCycles \cup {<<8, 4, 8, 4>>} :
          anim = BallSetBreathCycle(BallInit, cycle)
    /\ frame = NoFrame
    /\ active = NoQuery
    /\ measured = NoMeasure

Init == ToneInit /\ AnimInit

\* The coordinator driving the tone model and the (headless) visual stimulus,
\* base frequency assigned while it runs; the backend delivers every element
\* and raises nothing.
Next ==
    \/ Tick
    \/ PlayBackendOk
    \/ Pause
    \/ Stop
    \/ SetBaseFrequency
    \/ SetChannelOffset
    \/ FrequencyTimerFires

Spec == Init /\ [][Next]_vars

\* The coordinator's clock: play, pause and stop as time passes.
ElapsedNext ==
    \/ TickObserved
    \/ SetEnableVisualStimuli
    \/ PlayBackendOk
    \/ Pause
    \/ Stop

ElapsedSpec == Init /\ [][ElapsedNext]_vars

\* The coordinator over a backend whose factory may fail to deliver an element
\* and whose property writes may raise.
CtlNext ==
    \/ Tick
    \/ SetEnableVisualStimuli
    \/ Play
    \/ Pause
    \/ Stop

CtlSpec == Init /\ [][CtlNext]_vars

\* The tone model on its own: played, paused and stopped directly, its
\* frequencies assigned, the debounce timeout dispatched, with a factory that
\* may fail to deliver an element and property writes that may raise.
ToneNext ==
    \/ Tick
    \/ TonePlay
    \/ TonePause
    \/ ToneStop
    \/ SetBaseFrequency
    \/ SetChannelOffset
    \/ FrequencyTimerFires

ToneSpec == Init /\ [][ToneNext]_vars

\* The tone model with a constructed graph whose property writes may raise:
\* volume and base frequency assigned, the debounce timeout dispatched.
WriteNext ==
    \/ Tick
    \/ TonePlayConstructed
    \/ TonePause
    \/ ToneStop
    \/ SetBaseFrequency
    \/ SetVolume
    \/ FrequencyTimerFires

WriteSpec == Init /\ [][WriteNext]_vars

\* The tone model over a backend that delivers every element and raises
\* nothing: played, paused and stopped directly, its frequencies and volume
\* assigned, the debounce timeout dispatched.
SyncNext ==
    \/ Tick
    \/ TonePlayBackendOk
    \/ TonePause
    \/ ToneStop
    \/ SetBaseFrequency
    \/ SetChannelOffset
    \/ SetVolumeBackendOk
    \/ FrequencyTimerFiresBackendOk

SyncSpec == Init /\ [][SyncNext]_vars

\* The visual stimulus driven directly, with its widget and its timer.
VisualNext ==
    \/ Tick
    \/ SetEnableVisualStimuli
    \/ SetWidget
    \/ SetStimuliType
    \/ VisualStimulusPlay
    \/ VisualStimulusPause
    \/ VisualStimulusStop
    \/ AnimationTimerFires
    \/ VisualStimulusRender

VisualSpec == Init /\ [][VisualNext]_vars

\* The settings object on its own.
SettingsNext ==
    \/ SettingsAssignBaseFrequency
    \/ SettingsAssignChannelOffset

SettingsSpec == Init /\ [][SettingsNext]_vars

\* The animation registry on its own.
RegistryNext ==
    \/ Register
    \/ GetAnimation

RegistrySpec == Init /\ [][RegistryNext]_vars

\* The breath animation engine on its own.
PhaseSpec == PhaseInit /\ [][IsPhaseActiveAnyTime]_vars

\* a newly constructed engine with any fade duration of FadeDurations, on
\* which set_breath_cycle was called with any cycle of AllCycles
FrameInit ==
    /\ ToneInit
    /\ \E cycle \in AllCycles : \E fade \in FadeDurations :
          anim = BallSetBreathCycle(BallNew(fade), cycle)
    /\ frame = NoFrame
    /\ active = NoQuery
    /\ measured = NoMeasure

\* The engine with any cycle and fade duration, advanced and rendered.
FrameNext ==
    \/ Update
    \/ Render

FrameSpec == FrameInit /\ [][FrameNext]_vars

\* a newly constructed engine with any fade duration of FadeDurations
DegenerateInit ==
    /\ ToneInit
    /\ \E fade \in FadeDurations : anim = BallNew(fade)
    /\ frame = NoFrame
    /\ active = NoQuery
    /\ measured = NoMeasure

\* The engine driven with degenerate cycles: any subset of its phases empty.
DegenerateNext ==
    \/ SetBreathCycleDegenerate
    \/ Update
    \/ Reset
    \/ Render
    \/ IsPhaseActiveNow

DegenerateSpec == DegenerateInit /\ [][DegenerateNext]_vars

\* The radius functions of the inhale and exhale phases on their own.
RadiusSpec == RadiusInit /\ [][MeasurePhases]_vars

AnimNext ==
    \/ IsPhaseActiveNow
    \/ Reset
    \/ SetBreathCycle
    \/ SetBrainWaveState
    \/ SetPhaseCues
    \/ Update
    \/ Render

AnimSpec == Init /\ [][AnimNext]_vars

---------------------------------------------------------------------------
(* Properties *)

FreqTimers == {t \in timers : t.cb = "freq"}

\* C1: when playback is paused and then stopped without resuming, the elapsed
\* time read after stop() is the time spent playing; the paused time is not
\* counted.
C1_PausedTimeExcluded ==
    (last.op = "stop" /\ last.was_paused)
        => ElapsedTime(ctl, now) = played_total

\* C2: for a sequence play, pause, play, ..., stop, the elapsed time read after
\* a stop() that ends a playing interval is the sum of the lengths of all
\* intervals during which is_playing was true.
C2_ElapsedAcrossResume ==
    (last.op = "stop" /\ last.was_playing)
        => ElapsedTime(ctl, now) = played_total

\* C3: elapsed_time is monotonic: no step of the coordinator or of the clock
\* makes a later read smaller than an earlier one.
C3_ElapsedMonotonic ==
    [][ElapsedTime(ctl', now') >= ElapsedTime(ctl, now)]_vars

\* C4, as claimed: every run of the debounce callback is the one application
\* of its burst, and leaves left = base_frequency and right = base_frequency +
\* channel_offset on the oscillators.
C4_OneApplicationPerBurst ==
    last.op = "apply"
        => /\ burst.runs = 1
           /\ burst.applies = 1
           /\ audio.source_left = Some(audio.base_frequency)
           /\ audio.source_right = Some(audio.base_frequency + audio.channel_offset)

\* C4, amended: assignments less than the debounce delay apart lead to at most
\* one run of the debounce callback, which stays scheduled until it runs, runs
\* no earlier than the debounce delay after the last assignment and never
\* between two assignments of the burst; each assignment leaves exactly one
\* timeout scheduled; and the run writes left = base_frequency, right =
\* base_frequency + channel_offset if both oscillator handles exist and no
\* write raises.
C4_Debounce ==
    /\ burst.runs <= 1
    /\ burst.applies <= 1
    /\ last.op \in {"set_base_frequency", "set_channel_offset"}
          => /\ burst.runs = 0
             /\ audio.pending_frequency_update
    /\ (burst.last_assign # None /\ burst.runs = 0)
          => /\ Cardinality(FreqTimers) = 1
             /\ \A t \in FreqTimers :
                   /\ t.due = Val(burst.last_assign) + DebounceDelay
                   /\ audio.update_timeout_id = Some(t.id)
    /\ burst.runs = 1 => FreqTimers = {}
    /\ last.op = "apply"
          => /\ now >= Val(burst.last_assign) + DebounceDelay
             /\ (audio.source_left # None /\ audio.source_right # None
                 /\ ~last.failed)
                  => /\ last.applied
                     /\ burst.applies = 1
                     /\ audio.source_left = Some(audio.base_frequency)
                     /\ audio.source_right =
                            Some(audio.base_frequency + audio.channel_offset)
             /\ (audio.source_left = None \/ audio.source_right = None
                 \/ last.failed) => ~last.applied

\* C4's case: base_frequency 150 then channel_offset 30 within one burst,
\* applied by the callback as left = 150, right = 180
C4_Witness ==
    /\ last.op = "apply"
    /\ last.applied
    /\ burst.assigns = 2
    /\ audio.source_left = Some(150)
    /\ audio.source_right = Some(180)

\* C5: after the coordinator's stop() has returned, no frequency-debounce
\* timeout is pending and no timeout id is recorded.
C5_StopCancelsDebounce ==
    last.op = "stop" => (FreqTimers = {} /\ audio.update_timeout_id = None)

\* C6: a play() whose graph construction fails (a required element cannot be
\* created) lets an error escape to its caller and does not mark the model
\* playing.
C6_ConstructionFailureRaises ==
    (last.op = "play" /\ last.construction = "failed")
        => (last.raised # "none" /\ ~audio.is_playing)

\* C7: a backend error raised by a property write in the debounce callback or
\* in set_volume does not escape the handler, and the stored base_frequency,
\* channel_offset and volume are not rolled back: the callback leaves all
\* three as they were, set_volume leaves the clamped value it stored.
C7_WriteErrorsNonFatal ==
    [][(last'.op \in {"apply", "set_volume"} /\ last'.failed)
          => /\ last'.raised = "none"
             /\ audio'.base_frequency = audio.base_frequency
             /\ audio'.channel_offset = audio.channel_offset
             /\ audio'.volume = IF last'.op = "set_volume"
                                THEN Max(0, Min(100, last'.arg))
                                ELSE audio.volume]_vars

\* C7's case: the callback's write of a newly assigned base frequency raised;
\* nothing escaped, the oscillator keeps the old frequency and the model the
\* new one
C7_Witness ==
    /\ last.op = "apply"
    /\ last.failed
    /\ last.raised = "none"
    /\ audio.base_frequency = 150
    /\ audio.source_left = Some(30)

\* C8: if the tone model is playing when the debounce callback runs, the audio
\* graph is in state PLAYING when the callback has returned.
C8_PlaybackResumed ==
    (last.op = "apply" /\ last.was_playing)
        => (audio.pipeline # None /\ Val(audio.pipeline).state = "PLAYING")

\* C9: every run of the debounce callback ends with the pending-update flag
\* false and no timeout id recorded.
C9_PendingCleared ==
    last.op = "apply"
        => (~audio.pending_frequency_update /\ audio.update_timeout_id = None)

\* C10: a render() that follows set_breath_cycle(d) takes the total cycle
\* length, the cycle position and the phase boundaries from d.
C10_RenderUsesCurrentCycle ==
    frame.fresh
        => LET total == SumTo(anim.phase_durations, 4)
           IN /\ frame.background_only = (total = 0)
              /\ frame.phase_ends = Some(PhaseEnds(anim.phase_durations))
              /\ total > 0 => (frame.total = total /\ frame.t = anim.t % total)

\* the phase durations in use and their sum
CycleTotal == SumTo(anim.phase_durations, 4)

\* C11: whenever the current breath cycle sums to 0, is_phase_active has
\* returned false for every phase, and a render() has painted the background
\* only, with no circle and no cue.
C11_ZeroTotalCycle ==
    CycleTotal = 0
        => /\ active.asked => \A i \in 0..3 : ~active.results[i]
           /\ frame.fresh => (frame.background_only /\ frame.cue_text = None)

\* C12: for a cycle of non-negative durations with total > 0 and any t >= 0,
\* is_phase_active is true for exactly one phase index, the one whose
\* half-open interval [start, start + d) contains t mod total: a boundary
\* instant belongs to the later phase, and t = total wraps to the first
\* phase of non-zero length.
C12_PhasePartition ==
    (active.asked /\ CycleTotal > 0)
        => LET d == anim.phase_durations
               p == active.t % CycleTotal
               on == {i \in 0..3 : active.results[i]}
           IN /\ Cardinality(on) = 1
              /\ \A i \in on :
                    /\ d[i + 1] > 0
                    /\ SumTo(d, i) <= p
                    /\ p < SumTo(d, i + 1)
              /\ \A i \in 0..3 :
                    (d[i + 1] > 0 /\ p = SumTo(d, i)) => i \in on

\* C12's case: the query at t = total of a cycle whose first phase is empty
\* wraps to the second phase
C12_Witness ==
    /\ active.asked
    /\ CycleTotal > 0
    /\ anim.phase_durations[1] = 0
    /\ anim.phase_durations[2] > 0
    /\ active.t = CycleTotal
    /\ active.results[1]

\* C13: whenever the coordinator is not playing (paused or stopped), the
\* start timestamp is cleared and elapsed_time returns the accumulated total
\* alone.
C13_StartOnlyWhilePlaying ==
    ~ctl.is_playing
        => /\ ctl.start_time = None
           /\ ElapsedTime(ctl, now) =
                  (IF ctl.elapsed_time = None THEN 0 ELSE Val(ctl.elapsed_time))

\* C14: an assignment to base_frequency or channel_offset stores the value
\* (the getter returns it at once), sets the pending-update flag, leaves
\* exactly one newly started debounce timeout, due one debounce delay later,
\* and leaves both oscillators, the graph and the playing flag as they were,
\* whether the model is playing, paused or idle.
C14_AssignmentDeferred ==
    [][(last'.op \in {"set_base_frequency", "set_channel_offset"} /\ now' = now)
          => /\ last'.op = "set_base_frequency"
                   => /\ audio'.base_frequency = last'.arg
                      /\ audio'.channel_offset = audio.channel_offset
             /\ last'.op = "set_channel_offset"
                   => /\ audio'.channel_offset = last'.arg
                      /\ audio'.base_frequency = audio.base_frequency
             /\ audio'.pending_frequency_update
             /\ Cardinality(FreqTimers') = 1
             /\ \A t \in FreqTimers' :
                   /\ t.due = now + DebounceDelay
                   /\ audio'.update_timeout_id = Some(t.id)
                   /\ t \notin timers
             /\ audio'.source_left = audio.source_left
             /\ audio'.source_right = audio.source_right
             /\ audio'.pipeline = audio.pipeline
             /\ audio'.is_playing = audio.is_playing]_vars

\* C14's case: base_frequency assigned while playing; the model holds 150, the
\* left oscillator still 30
C14_Witness ==
    /\ last.op = "set_base_frequency"
    /\ audio.is_playing
    /\ audio.base_frequency = 150
    /\ audio.pending_frequency_update
    /\ audio.source_left = Some(30)
    /\ Cardinality(FreqTimers) = 1

\* C15: a play() that starts playback, with no backend error in its own
\* writes, leaves the left oscillator at base_frequency and the right one at
\* base_frequency + channel_offset, with the graph PLAYING.
C15_PlayAppliesFrequencies ==
    (last.op = "play" /\ ~last.was_playing /\ audio.is_playing /\ ~last.failed)
        => /\ audio.source_left = Some(audio.base_frequency)
           /\ audio.source_right = Some(audio.base_frequency + audio.channel_offset)
           /\ audio.pipeline # None
           /\ Val(audio.pipeline).state = "PLAYING"

\* C16: play() calls _create_pipeline exactly when the model is not playing
\* and holds no graph, so play, pause, play constructs once; play() on a
\* playing model changes nothing; pause() keeps the graph; stop() releases the
\* graph and clears the playing flag, whether or not a graph existed.
C16_GraphLifecycle ==
    [][now' = now
          => /\ last'.op = "play"
                   => /\ (last'.construction # "none")
                             = (~audio.is_playing /\ audio.pipeline = None)
                      /\ audio.is_playing => audio' = audio
                      /\ (last'.construction = "none" /\ ~audio.is_playing)
                             => audio'.pipeline # None
             /\ last'.op = "pause"
                   => (audio'.pipeline = None) = (audio.pipeline = None)
             /\ last'.op = "stop"
                   => /\ audio'.pipeline = None
                      /\ ~audio'.is_playing]_vars

\* C16's case: play() resumes a paused model on the graph the first play()
\* built, without constructing
C16_Witness ==
    /\ last.op = "play"
    /\ last.construction = "none"
    /\ ~last.was_playing
    /\ last.was_paused
    /\ audio.is_playing
    /\ audio.pipeline # None
    /\ Val(audio.pipeline).linked

\* the volume arguments clamped to [0, 1], in hundredths
Clamped(x) == IF x < 0 THEN 0 ELSE IF x > 100 THEN 100 ELSE x

\* C17: after set_volume(x), get_volume() returns x clamped to [0, 1]; if a
\* volume element exists, set_property was called on it with the clamped value
\* in the same call, and the element holds it unless the backend raised; with
\* no element nothing is written; and a second set_volume(x) would leave the
\* stored value as it is.
C17_VolumeClamped ==
    last.op = "set_volume"
        => /\ GetVolume(audio) = Clamped(last.arg)
           /\ GetVolume(audio) \in 0..100
           /\ audio.volume_element # None
                 => /\ last.sent = Some(Clamped(last.arg))
                    /\ ~last.failed
                          => audio.volume_element = Some(Clamped(last.arg))
           /\ audio.volume_element = None => last.sent = None
           /\ \A o \in Outcomes :
                 GetVolume(AudioSetVolume(audio, last.arg, o).audio)
                     = GetVolume(audio)

\* C17's case: set_volume(2.0) on a model with a volume element stores 1.0
\* and writes 1.0 to the element
C17_Witness ==
    /\ last.op = "set_volume"
    /\ last.arg = 200
    /\ audio.volume = 100
    /\ audio.volume_element = Some(100)

\* the cue slot of the phase the last render() took as the current one, and
\* that slot's canonical label
FrameCueSlot == anim.phase_cues[frame.cue_phase + 1]
FrameCanonicalCue == Some(CanonicalCue[frame.cue_phase + 1])

\* C18: every render() with a non-zero cycle in which the cue slot of the
\* current phase holds the slot's canonical label draws that text.
C18_EnabledCueDrawn ==
    (frame.fresh /\ ~frame.background_only /\ FrameCueSlot = FrameCanonicalCue)
        => frame.cue_text = FrameCanonicalCue

\* C19: a render() draws cue text only if the cue slot of the current phase is
\* non-null and equals the slot's canonical label, and then the text drawn is
\* that label; a null slot or any other text draws nothing.
C19_OnlyCanonicalCueDrawn ==
    frame.fresh
        => /\ frame.cue_text # None
                 => /\ ~frame.background_only
                    /\ FrameCueSlot # None
                    /\ FrameCueSlot = FrameCanonicalCue
                    /\ frame.cue_text = FrameCanonicalCue
           /\ (FrameCueSlot = None \/ FrameCueSlot # FrameCanonicalCue)
                 => frame.cue_text = None

\* C19's case: the exhale slot holds "Breathe out", the frame is in the exhale
\* phase, and no text is drawn
C19_Witness ==
    /\ frame.fresh
    /\ ~frame.background_only
    /\ frame.cue_phase = 2
    /\ FrameCueSlot = Some("Breathe out")
    /\ frame.cue_text = None

\* the accumulated elapsed time stored in the coordinator (0 if none yet)
Accumulated(c) == IF c.elapsed_time = None THEN 0 ELSE Val(c.elapsed_time)

\* C20: from any coordinator state, stop() leaves the tone model stopped (no
\* graph, not playing) and the visual stimulus stopped (not playing, no
\* animation timeout), adds now - start timestamp to the accumulated elapsed
\* time if a start timestamp is set and leaves the accumulated time alone
\* otherwise, and ends with is_playing false, is_paused false and the start
\* timestamp cleared.
C20_StopUnconditional ==
    [][(last'.op = "stop" /\ now' = now)
          => /\ audio'.pipeline = None
             /\ ~audio'.is_playing
             /\ ~visual'.is_playing
             /\ visual'.animation_source = None
             /\ \A t \in timers' : t.cb # "anim"
             /\ IF ctl.start_time # None
                THEN ctl'.elapsed_time =
                         Some(Accumulated(ctl) + (now - Val(ctl.start_time)))
                ELSE ctl'.elapsed_time = ctl.elapsed_time
             /\ ~ctl'.is_playing
             /\ ~ctl'.is_paused
             /\ ctl'.start_time = None]_vars

\* C20's case: stop() called on a paused coordinator has torn the graph down,
\* folded the start timestamp into the elapsed time and cleared both flags
C20_Witness ==
    /\ last.op = "stop"
    /\ last.was_paused
    /\ audio.pipeline = None
    /\ ~ctl.is_paused
    /\ ctl.start_time = None
    /\ ctl.elapsed_time # None

C22_PauseFrame ==
    [][(last'.op = "pause" /\ now' = now)
          => IF ctl.is_playing
             THEN /\ last'.audio_calls = 1
                  /\ last'.visual_calls = 1
                  /\ ~ctl'.is_playing
                  /\ ctl'.is_paused
                  /\ ~audio'.is_playing
                  /\ ~visual'.is_playing
             ELSE /\ last'.audio_calls = 0
                  /\ last'.visual_calls = 0
                  /\ ctl' = ctl
                  /\ audio' = audio
                  /\ visual' = visual
                  /\ timers' = timers]_vars

\* C22's case: pause() on a stopped coordinator that had played; it is still
\* neither playing nor paused
C22_Witness ==
    /\ last.op = "pause"
    /\ last.audio_calls = 0
    /\ ~last.was_playing
    /\ ~last.was_paused
    /\ ~ctl.is_playing
    /\ ~ctl.is_paused
    /\ ctl.elapsed_time # None


\* the radius at the end of the inhale: max_radius * (1 - pulse_factor)
InhaleTop == (MaxRadius * (100 - PulsePercent)) \div 100

PulseAmplitude == (MaxRadius * PulsePercent) \div 100

Abs(x) == IF x < 0 THEN -x ELSE x

\* the branch of render's if/elif chain taken just after cycle position t
BranchAfter(ends, t) ==
    IF t < ends[2] THEN 1
    ELSE IF t < ends[3] THEN 2
    ELSE IF t < ends[4] THEN 3
    ELSE 4

\* the radius render chooses just after the position of the last frame, and
\* the one it chooses just before the cycle position wraps from total to 0:
\* each phase function is continuous in t, so the limit is its value there
RadiusJustAfter ==
    PhaseOf(anim, BranchAfter(Val(frame.phase_ends), frame.t), frame.t,
            MaxRadius).radius
RadiusBeforeWrap ==
    PhaseOf(anim, RadiusPhase(Val(frame.phase_ends), frame.total), frame.total,
            MaxRadius).radius

\* C24: for a cycle with total > 0, the radius render() draws at a cycle
\* position differs from the radius it chooses just after that position by
\* no more than max_radius * pulse_factor, and the radius drawn at position 0
\* differs by no more than that from the radius chosen just before the wrap.
C24_RadiusContinuous ==
    (frame.fresh /\ ~frame.background_only /\ CycleTotal > 0)
        => /\ Abs(RadiusJustAfter - frame.radius) <= PulseAmplitude
           /\ frame.t = 0
                 => Abs(frame.radius - RadiusBeforeWrap) <= PulseAmplitude


\* the base colour of phase k (1..4), and of the phase that follows it
BaseColor(k) == IF k % 2 = 1 THEN anim.breath_color ELSE anim.hold_color
NextBaseColor(k) == BaseColor((k % 4) + 1)

\* position t lies strictly within fade_duration / 2 of the boundary
NearBoundary(t, boundary) == 2 * Abs(t - boundary) < anim.fade_duration

\* the cross-fade at a boundary where phase k ends: the interpolation from
\* phase k's base colour to the next phase's, with fraction
\* (t - (boundary - fade_duration / 2)) / fade_duration
CrossFade(k, t, boundary) ==
    InterpolateColor(BaseColor(k), NextBaseColor(k),
                     2 * (t - boundary) + anim.fade_duration,
                     2 * anim.fade_duration)

C26_NeverRaises ==
    /\ frame.raised = "none"
    /\ active.raised = "none"

\* C26's case: with fade duration 0 and a cycle whose inhale and exhale are
\* empty, render() has gone through phase1 and drawn a circle of radius 0
C26_Witness ==
    /\ frame.fresh
    /\ ~frame.background_only
    /\ anim.fade_duration = 0
    /\ anim.phase_durations[1] = 0
    /\ anim.phase_durations[3] = 0
    /\ frame.radius_phase = 1
    /\ frame.radius = 0
    /\ frame.color # None


NumericAliases == {<<"0">>, <<"1">>, <<"2">>}

\* C30: after register(name, cls), get_animation_class(name) returns cls, for
\* any name; and get_animation_class of a name that is no key of the registry
\* and no numeric alias returns ColorLayersAnimation.
C30_RegistryRoundTrip ==
    /\ last.op = "register"
          => GetAnimationClass(registry, Val(last.name)) = Val(last.cls)
    /\ (last.op = "get_animation_class"
        /\ Val(last.name) \notin DOMAIN registry
        /\ Val(last.name) \notin NumericAliases)
          => last.cls = Some("ColorLayersAnimation")


\* the pending tick timers of the visual stimulus
TickTimers(tm) == {t \in tm : t.cb = "anim"}

\* C28: after VisualStimulus.pause() or stop() no tick timer is pending and
\* the accumulated time is 0; at most one tick timer is pending at any time;
\* and pause() or stop() with no tick timer pending removes no source.
C28_TimerLifecycle ==
    [][/\ Cardinality(TickTimers(timers')) <= 1
       /\ (last'.op \in {"visual_pause", "visual_stop"} /\ now' = now)
             => /\ TickTimers(timers') = {}
                /\ visual'.time = 0
                /\ last'.raised = "none"
                /\ TickTimers(timers) = {}
                     => (timers' = timers /\ last'.removed = 0)]_vars

\* C28's case: pause() just ended a playing stimulus and removed its pending
\* tick timer
C28_Witness ==
    /\ last.op = "visual_pause"
    /\ last.was_playing
    /\ last.removed = 1
    /\ visual.animation_source = None
    /\ timers = {}

\* C29: VisualStimulus.play() changes nothing while visual stimuli are
\* disabled or the stimulus is already playing; render() paints only the
\* background, without calling the animation, while visual stimuli are
\* disabled or the stimulus is not playing.
C29_PlayAndRenderGuards ==
    [][/\ (last'.op = "visual_play" /\ now' = now
           /\ (~visual.enable_visual_stimuli \/ visual.is_playing))
             => (visual' = visual /\ timers' = timers)
       /\ (last'.op = "visual_render" /\ now' = now
           /\ (~visual.enable_visual_stimuli \/ ~visual.is_playing))
             => /\ last'.drawn = "background"
                /\ last'.animation_calls = 0
                /\ visual' = visual]_vars

\* C29's case: render() painted the background for a stimulus that is playing
\* but disabled
C29_Witness ==
    /\ last.op = "visual_render"
    /\ last.drawn = "background"
    /\ visual.is_playing
    /\ ~visual.enable_visual_stimuli


\* C31: every write of an oscillator's "freq" property, by the debounce
\* callback, by play() or by the graph construction, is made while the graph
\* is in state PAUSED or NULL, never while it is PLAYING.
C31_WritesWhileNotPlaying ==
    last.wrote_in \subseteq {"PAUSED", "NULL"}

\* C31's case: the debounce callback ran on a playing graph, paused it, wrote
\* both frequencies and resumed
C31_Witness ==
    /\ last.op = "apply"
    /\ last.was_playing
    /\ last.applied
    /\ last.wrote_in = {"PAUSED"}
    /\ GraphState(audio) = "PLAYING"


\* C32: a debounce callback that runs while the tone model is not playing
\* leaves the graph's state and the playing flag as they were; of the tone
\* model it changes only the oscillators' frequencies, the pending flag and
\* the timer id.
C32_CallbackNeverStartsPlayback ==
    [][(last'.op = "apply" /\ now' = now /\ ~audio.is_playing)
         => /\ ~audio'.is_playing
            /\ audio'.pipeline = audio.pipeline
            /\ audio' = [audio EXCEPT
                           !.source_left = audio'.source_left,
                           !.source_right = audio'.source_right,
                           !.pending_frequency_update =
                               audio'.pending_frequency_update,
                           !.update_timeout_id = audio'.update_timeout_id]]_vars

\* C32's case: the callback wrote both frequencies on a paused graph and left
\* it paused
C32_Witness ==
    /\ last.op = "apply"
    /\ ~last.was_playing
    /\ last.applied
    /\ GraphState(audio) = "PAUSED"
    /\ audio.pipeline # None
    /\ ~audio.is_playing


\* C33: at most one frequency-debounce timer is pending at any time, and a
\* timeout id is recorded exactly when a timer is pending (and is that
\* timer's id).
C33_OneDebounceTimer ==
    /\ Cardinality(FreqTimers) <= 1
    /\ audio.update_timeout_id # None <=> FreqTimers # {}
    /\ \A t \in FreqTimers : audio.update_timeout_id = Some(t.id)

\* C33's case: a second assignment within the debounce delay replaced the
\* timer of the first
C33_Witness ==
    /\ last.op \in {"set_base_frequency", "set_channel_offset"}
    /\ burst.assigns = 2
    /\ Cardinality(FreqTimers) = 1
    /\ \E t \in FreqTimers : t.due = now + DebounceDelay /\ t.id # 1


\* C34: over a backend that raises nothing, whenever an audio graph exists
\* and no debounce timer is pending, the left oscillator holds base_frequency,
\* the right oscillator base_frequency + channel_offset and the volume control
\* get_volume().
C34_BackendInSync ==
    (audio.pipeline # None /\ FreqTimers = {})
        => /\ audio.source_left = Some(audio.base_frequency)
           /\ audio.source_right = Some(audio.base_frequency + audio.channel_offset)
           /\ audio.volume_element = Some(GetVolume(audio))

\* C34's case: the debounce callback just brought the oscillators of an
\* existing graph to a newly assigned base frequency and offset, after the
\* volume was changed
C34_Witness ==
    /\ last.op = "apply"
    /\ last.applied
    /\ audio.pipeline # None
    /\ FreqTimers = {}
    /\ audio.base_frequency = 150
    /\ audio.channel_offset = 30
    /\ audio.source_right = Some(180)
    /\ audio.volume_element = Some(42)


\* C35: whenever the tone model's playing flag is true, an audio graph exists
\* in which both oscillators, the mixer, the converter, the volume control and
\* the sink were created and linked.
C35_PlayingGraphComplete ==
    audio.is_playing
        => /\ audio.pipeline # None
           /\ Val(audio.pipeline).linked
           /\ audio.source_left # None
           /\ audio.source_right # None
           /\ audio.mixer # None
           /\ audio.audioconvert # None
           /\ audio.volume_element # None
           /\ audio.sink # None

\* C36: whenever the coordinator's is_playing is true, the tone model is
\* playing and its graph is in state PLAYING.
C36_CoordinatorAgreesWithTone ==
    ctl.is_playing => (audio.is_playing /\ GraphState(audio) = "PLAYING")


\* C37: is_playing and is_paused are never both true, neither when play(),
\* pause() or stop() has returned nor in what a handler of the is-playing
\* notification reads while they run; a handler run during play() reads
\* is_paused false, a handler run during pause() reads is_paused true.
C37_FlagsExclusive ==
    /\ ~(ctl.is_playing /\ ctl.is_paused)
    /\ last.seen # None
          => /\ ~(Val(last.seen).is_playing /\ Val(last.seen).is_paused)
             /\ last.op = "play" => ~Val(last.seen).is_paused
             /\ last.op = "pause" => Val(last.seen).is_paused


\* C38: in a frame drawn for a cycle with total > 0 at accumulated time t,
\* the phase whose radius function and base colour render() used, and the
\* phase whose cue slot it used, are the phase i with is_phase_active(i, t).
C38_RenderAgreesWithIsPhaseActive ==
    (frame.fresh /\ ~frame.background_only)
        => /\ IsPhaseActive(anim, frame.radius_phase - 1, anim.t)
           /\ IsPhaseActive(anim, frame.cue_phase, anim.t)


\* C39: whenever the visual stimulus is playing and a widget is attached, an
\* animation-tick timer is scheduled.
C39_PlayingWidgetHasTimer ==
    (visual.is_playing /\ visual.widget) => TickTimers(timers) # {}


===========================================================================
